---- MODULE Spec2Model ----
(***************************************************************************)
(* Model of filter_middleware_patch.py: the patch filter that keeps only   *)
(* the diff sections under middleware/ and rewrites their paths.           *)
(*                                                                         *)
(* Text.  A Python str is modelled as a sequence of lexemes, each lexeme   *)
(* standing for the characters it spells:                                  *)
(*   "diff --git"  "---"  "+++"  " "  "a/"  "b/"  "middleware"  "/"  "x"   *)
(*   "\n"                                                                  *)
(* No lexeme is a prefix of another, so a string has one lexeme sequence   *)
(* and str.startswith is the prefix test on sequences.  The literals the   *)
(* program searches for (" b/middleware/", "--- a/middleware/",            *)
(* "+++ b/middleware/") can only occur on lexeme boundaries in a string    *)
(* spelled with these lexemes: their first lexeme (" ", "---", "+++")      *)
(* is followed by a character that no continuation inside a longer lexeme  *)
(* offers.  So re.match and str.replace are modelled on lexemes.           *)
(*                                                                         *)
(* Indices are Python's: 0-based, At(lines, i) is lines[i].                *)
(***************************************************************************)
EXTENDS Integers, Sequences, FiniteSets, TLC

\* Longest document explored, in lines.
MaxLines == 3

VARIABLES
    inFile,          \* the input path on disk: Missing, or File(lines)
    outFile,         \* the output path on disk: Absent, or File(lines)
    outFile0,        \* history: outFile before the run
    pc,              \* position in main / process_patch_file
    lines,           \* process_patch_file: lines
    start_index,     \* process_patch_file: start_index (None is -1)
    i,               \* process_patch_file: i
    filtered_lines,  \* process_patch_file: filtered_lines
    origin,          \* history: for each filtered line, the index in lines it came from
    visited,         \* history: the value of i at the start of each loop iteration
    plainTaken,      \* history: the `else: i += 1` branch ran
    outOpened,       \* history: open(output_file, 'w') was called
    exc,             \* the exception in flight ("" when none)
    raisedAt,        \* history: the call that raised ("" / "read" / "write")
    stdout,          \* what print() wrote, one record per call
    exit_status      \* <<>> while running, <<n>> once the process exited with n

vars == <<inFile, outFile, outFile0, pc, lines, start_index, i, filtered_lines,
          origin, visited, plainTaken, outOpened, exc, raisedAt, stdout,
          exit_status>>

-----------------------------------------------------------------------------
(* Strings *)

NL == <<"\n">>

At(s, k) == s[k + 1]

StartsWith(s, p) == Len(s) >= Len(p) /\ SubSeq(s, 1, Len(p)) = p

Max(S) == CHOOSE m \in S : \A n \in S : n <= m

Min(S) == CHOOSE m \in S : \A n \in S : m <= n

\* 'diff --git'
DIFF_GIT == <<"diff --git">>

\* 'diff --git a/middleware/' : the regular expression up to its first group
RE_HEAD == <<"diff --git", " ", "a/", "middleware", "/">>

\* ' b/middleware/' : the regular expression between its two groups
RE_MID == <<" ", "b/", "middleware", "/">>

\* '--- a/middleware/' and '--- a/'
OLD_A == <<"---", " ", "a/", "middleware", "/">>
NEW_A == <<"---", " ", "a/">>

\* '+++ b/middleware/' and '+++ b/'
OLD_B == <<"+++", " ", "b/", "middleware", "/">>
NEW_B == <<"+++", " ", "b/">>

\* line.startswith('diff --git')
IsDiffStart(line) == StartsWith(line, DIFF_GIT)

\* The part of a string that '.*' can cover from its start: up to the first
\* newline, which '.' does not match.
UpToNewline(s) ==
    LET nls == {k \in 1..Len(s) : s[k] = "\n"}
    IN  IF nls = {} THEN s ELSE SubSeq(s, 1, Min(nls) - 1)

NoMatch == [matched |-> FALSE, g1 |-> <<>>, g2 |-> <<>>]

\* A mutation of re_match_middleware: the b side is not required to be under
\* middleware/ (r'diff --git a/middleware/(.*) b/(.*)').
re_match_a_side_only(line) ==
    LET body  == UpToNewline(line)
        mid   == <<" ", "b/">>
        cands == {j \in (Len(RE_HEAD) + 1)..(Len(body) - Len(mid) + 1) :
                      SubSeq(body, j, j + Len(mid) - 1) = mid}
    IN  IF ~StartsWith(body, RE_HEAD) \/ cands = {}
        THEN NoMatch
        ELSE LET j == Max(cands)
             IN  [matched |-> TRUE,
                  g1 |-> SubSeq(body, Len(RE_HEAD) + 1, j - 1),
                  g2 |-> SubSeq(body, j + Len(mid), Len(body))]

\* re.match(r'diff --git a/middleware/(.*) b/middleware/(.*)', line): anchored
\* at the start of the line only; both groups are greedy, so group 1 runs to
\* the LAST ' b/middleware/' before the newline and group 2 to the newline.
re_match_middleware(line) ==
    LET body  == UpToNewline(line)
        cands == {j \in (Len(RE_HEAD) + 1)..(Len(body) - Len(RE_MID) + 1) :
                      SubSeq(body, j, j + Len(RE_MID) - 1) = RE_MID}
    IN  IF ~StartsWith(body, RE_HEAD) \/ cands = {}
        THEN NoMatch
        ELSE LET j == Max(cands)
             IN  [matched |-> TRUE,
                  g1 |-> SubSeq(body, Len(RE_HEAD) + 1, j - 1),
                  g2 |-> SubSeq(body, j + Len(RE_MID), Len(body))]

\* str.replace(old, new): every non-overlapping occurrence, left to right.
RECURSIVE str_replace(_, _, _)
str_replace(s, old, new) ==
    IF Len(s) < Len(old) THEN s
    ELSE IF StartsWith(s, old)
         THEN new \o str_replace(SubSeq(s, Len(old) + 1, Len(s)), old, new)
         ELSE <<Head(s)>> \o str_replace(Tail(s), old, new)

-----------------------------------------------------------------------------
(* collect_diff_section, skip_to_next_diff, process_middleware_section *)

RECURSIVE collect_loop(_, _, _)
collect_loop(ls, k, section_lines) ==
    IF k < Len(ls)
    THEN IF IsDiffStart(At(ls, k))
         THEN section_lines
         ELSE collect_loop(ls, k + 1, Append(section_lines, At(ls, k)))
    ELSE section_lines

\* A mutation of collect_diff_section: the break on the next 'diff --git' is
\* taken one line late, so the section swallows the following diff-start line.
collect_diff_section_late_break(ls, start) ==
    LET sec == collect_loop(ls, start + 1, <<At(ls, start)>>)
        nxt == start + Len(sec)
    IN  IF nxt < Len(ls) THEN Append(sec, At(ls, nxt)) ELSE sec

collect_diff_section(ls, start) ==
    collect_loop(ls, start + 1, <<At(ls, start)>>)

RECURSIVE skip_loop(_, _)
skip_loop(ls, k) ==
    IF k < Len(ls)
    THEN IF IsDiffStart(At(ls, k)) THEN k ELSE skip_loop(ls, k + 1)
    ELSE Len(ls)

\* A mutation of skip_to_next_diff: it gives up and reports the end of the file.
skip_to_next_diff_to_end(ls, start) == Len(ls)

\* A mutation of skip_to_next_diff: it does not search and returns its argument.
skip_to_next_diff_no_search(ls, start) == IF start < Len(ls) THEN start ELSE Len(ls)

skip_to_next_diff(ls, start) == skip_loop(ls, start)

\* A mutation of process_line: the diff-start line is rewritten by deleting
\* every 'middleware/' of the line instead of using the two captured groups.
process_line_strip_everywhere(line, path_a, path_b) ==
    IF IsDiffStart(line)
    THEN UpToNewline(str_replace(line, <<"middleware", "/">>, <<>>)) \o NL
    ELSE IF StartsWith(line, OLD_A) THEN str_replace(line, OLD_A, NEW_A)
    ELSE IF StartsWith(line, OLD_B) THEN str_replace(line, OLD_B, NEW_B)
    ELSE line

\* A mutation of process_line: the replacements are applied to every line,
\* without the startswith tests.
process_line_no_prefix_test(line, path_a, path_b) ==
    IF IsDiffStart(line)
    THEN <<"diff --git", " ", "a/">> \o path_a \o <<" ", "b/">> \o path_b \o NL
    ELSE str_replace(str_replace(line, OLD_A, NEW_A), OLD_B, NEW_B)

\* The body of the for loop of process_middleware_section.
process_line(line, path_a, path_b) ==
    IF IsDiffStart(line)
    THEN <<"diff --git", " ", "a/">> \o path_a \o <<" ", "b/">> \o path_b \o NL
    ELSE IF StartsWith(line, OLD_A) THEN str_replace(line, OLD_A, NEW_A)
    ELSE IF StartsWith(line, OLD_B) THEN str_replace(line, OLD_B, NEW_B)
    ELSE line

process_middleware_section(section_lines, path_a, path_b) ==
    [k \in 1..Len(section_lines) |-> process_line(section_lines[k], path_a, path_b)]

\* The first loop of process_patch_file: the index of the first line that
\* starts with 'diff --git', None (-1) when there is none.
RECURSIVE first_diff_loop(_, _)
first_diff_loop(ls, k) ==
    IF k < Len(ls)
    THEN IF IsDiffStart(At(ls, k)) THEN k ELSE first_diff_loop(ls, k + 1)
    ELSE -1

\* A mutation of find_start_index: start_index is initialised to 0, not None.
find_start_index_zero(ls) ==
    IF first_diff_loop(ls, 0) = -1 THEN 0 ELSE first_diff_loop(ls, 0)

find_start_index(ls) == first_diff_loop(ls, 0)

\* len([line for line in filtered_lines if line.startswith('diff --git')])
count_diff_lines(ls) == Cardinality({k \in 1..Len(ls) : IsDiffStart(ls[k])})

-----------------------------------------------------------------------------
(* Input documents *)

\* The line bodies (without the line ending) documents are built from.
LineBodies == {
    <<"x">>,
    <<"x", "---", " ", "a/", "middleware", "/", "x">>,
    <<"---", " ", "a/", "middleware", "/", "x">>,
    <<"---", " ", "a/", "middleware", "/", "---", " ", "a/", "middleware", "/", "x">>,
    <<"+++", " ", "b/", "middleware", "/", "x">>,
    <<"diff --git", "x">>,
    <<"diff --git", " ", "a/", "x", " ", "b/", "x">>,
    <<"diff --git", " ", "a/", "middleware", " ", "b/", "middleware">>,
    <<"diff --git", " ", "a/", "middleware", "/", "x", " ", "b/", "x">>,
    <<"diff --git", " ", "a/", "middleware", "/", "x", " ", "b/", "middleware", "/", "x">>,
    <<"diff --git", " ", "a/", "middleware", "/", "x",
      " ", "b/", "middleware", "/", "x", " ", "b/", "middleware", "/", "x">> }

\* What readlines() can return: every line ends with a newline, except
\* possibly the last one.
Documents ==
    UNION {
        {[k \in 1..n |-> IF k < n \/ eofNewline THEN b[k] \o NL ELSE b[k]] :
             b \in [1..n -> LineBodies], eofNewline \in BOOLEAN}
        : n \in 0..MaxLines }

\* A path on disk: whether a file is there, and its lines.
File(content) == [exists |-> TRUE, content |-> content]
Missing == [exists |-> FALSE, content |-> <<>>]
Absent == [exists |-> FALSE, content |-> <<>>]
Stale == File(<<<<"x", "\n">>>>)

Msg(m, n) == [msg |-> m, n |-> n]

-----------------------------------------------------------------------------
(* main and process_patch_file *)

Init ==
    /\ inFile \in {File(d) : d \in Documents} \cup {Missing}
    /\ outFile \in {Absent, Stale}
    /\ outFile0 = outFile
    /\ pc = "read"
    /\ lines = <<>>
    /\ start_index = -1
    /\ i = 0
    /\ filtered_lines = <<>>
    /\ origin = <<>>
    /\ visited = <<>>
    /\ plainTaken = FALSE
    /\ outOpened = FALSE
    /\ exc = ""
    /\ raisedAt = ""
    /\ stdout = <<>>
    /\ exit_status = <<>>

\* open(input_file) raises FileNotFoundError.
ReadMissing ==
    /\ pc = "read"
    /\ inFile = Missing
    /\ exc' = "FileNotFoundError"
    /\ raisedAt' = "read"
    /\ pc' = "except"
    /\ UNCHANGED <<inFile, outFile, outFile0, lines, start_index, i, filtered_lines,
                   origin, visited, plainTaken, outOpened, stdout, exit_status>>

\* open(input_file) or readlines() raises something else: the file is there
\* but cannot be read (PermissionError stands for every exception that is
\* not a FileNotFoundError; main tells no other two apart).
ReadFails ==
    /\ pc = "read"
    /\ inFile # Missing
    /\ exc' = "PermissionError"
    /\ raisedAt' = "read"
    /\ pc' = "except"
    /\ UNCHANGED <<inFile, outFile, outFile0, lines, start_index, i, filtered_lines,
                   origin, visited, plainTaken, outOpened, stdout, exit_status>>

\* lines = f.readlines(), then the search for the first 'diff --git' and the
\* early return when there is none.
ReadAndFindStart ==
    /\ pc = "read"
    /\ inFile # Missing
    /\ lines' = inFile.content
    /\ start_index' = find_start_index(lines')
    /\ IF start_index' = -1
       THEN /\ stdout' = Append(stdout, Msg("No 'diff --git' found", 0))
            /\ pc' = "returned"
            /\ UNCHANGED <<i, filtered_lines>>
       ELSE /\ filtered_lines' = <<>>
            /\ i' = start_index'
            /\ pc' = IF i' < Len(lines') THEN "scan" ELSE "write"
            /\ UNCHANGED stdout
    /\ UNCHANGED <<inFile, outFile, outFile0, origin, visited, plainTaken,
                   outOpened, exc, raisedAt, exit_status>>

\* One iteration of `while i < len(lines)`.
ScanStep ==
    /\ pc = "scan"
    /\ i < Len(lines)
    /\ visited' = Append(visited, i)
    /\ LET line == At(lines, i)
       IN  IF IsDiffStart(line)
           THEN LET middleware_match == re_match_middleware(line)
                IN  IF middleware_match.matched
                    THEN LET section_lines == collect_diff_section(lines, i)
                             processed_section ==
                                 process_middleware_section(
                                     section_lines,
                                     middleware_match.g1, middleware_match.g2)
                         IN  /\ filtered_lines' = filtered_lines \o processed_section
                             /\ origin' = origin \o
                                    [k \in 1..Len(section_lines) |-> i + k - 1]
                             /\ i' = i + Len(section_lines)
                             /\ UNCHANGED plainTaken
                    ELSE /\ i' = skip_to_next_diff(lines, i + 1)
                         /\ UNCHANGED <<filtered_lines, origin, plainTaken>>
           ELSE /\ i' = i + 1
                /\ plainTaken' = TRUE
                /\ UNCHANGED <<filtered_lines, origin>>
    /\ pc' = IF i' < Len(lines) THEN "scan" ELSE "write"
    /\ UNCHANGED <<inFile, outFile, outFile0, lines, start_index, outOpened, exc,
                   raisedAt, stdout, exit_status>>

\* open(output_file, 'w'), writelines and the two prints.
WriteOutput ==
    /\ pc = "write"
    /\ outOpened' = TRUE
    /\ outFile' = File(filtered_lines)
    /\ stdout' = stdout \o
           <<Msg("Filtered patch written to", 0),
             Msg("Processed middleware diff sections", count_diff_lines(filtered_lines))>>
    /\ pc' = "returned"
    /\ UNCHANGED <<inFile, outFile0, lines, start_index, i, filtered_lines, origin,
                   visited, plainTaken, exc, raisedAt, exit_status>>

\* open(output_file, 'w') raises FileNotFoundError: the directory of the
\* output path does not exist.  Nothing is created.
WriteNoDirectory ==
    /\ pc = "write"
    /\ outFile = Absent
    /\ outOpened' = TRUE
    /\ exc' = "FileNotFoundError"
    /\ raisedAt' = "write"
    /\ pc' = "except"
    /\ UNCHANGED <<inFile, outFile, outFile0, lines, start_index, i, filtered_lines,
                   origin, visited, plainTaken, stdout, exit_status>>

\* open(output_file, 'w') raises PermissionError (the file is untouched), or
\* the write fails after open truncated the file: before anything reached
\* the disk, or on the final flush with every line on it.
WriteFails ==
    /\ pc = "write"
    /\ outOpened' = TRUE
    /\ \/ exc' = "PermissionError" /\ UNCHANGED outFile
       \/ /\ exc' = "OSError"
          /\ \E n \in {0, Len(filtered_lines)} :
                 outFile' = File(SubSeq(filtered_lines, 1, n))
    /\ raisedAt' = "write"
    /\ pc' = "except"
    /\ UNCHANGED <<inFile, outFile0, lines, start_index, i, filtered_lines, origin,
                   visited, plainTaken, stdout, exit_status>>

\* process_patch_file returned: main falls off its end.
MainReturns ==
    /\ pc = "returned"
    /\ exit_status' = <<0>>
    /\ pc' = "exit"
    /\ UNCHANGED <<inFile, outFile, outFile0, lines, start_index, i, filtered_lines,
                   origin, visited, plainTaken, outOpened, exc, raisedAt, stdout>>

\* except FileNotFoundError
ExceptFileNotFound ==
    /\ pc = "except"
    /\ exc = "FileNotFoundError"
    /\ stdout' = Append(stdout, Msg("Error: Input file not found", 0))
    /\ exit_status' = <<1>>
    /\ pc' = "exit"
    /\ UNCHANGED <<inFile, outFile, outFile0, lines, start_index, i, filtered_lines,
                   origin, visited, plainTaken, outOpened, exc, raisedAt>>

\* except Exception
ExceptException ==
    /\ pc = "except"
    /\ exc # "FileNotFoundError"
    /\ stdout' = Append(stdout, Msg("Error processing patch file", 0))
    /\ exit_status' = <<1>>
    /\ pc' = "exit"
    /\ UNCHANGED <<inFile, outFile, outFile0, lines, start_index, i, filtered_lines,
                   origin, visited, plainTaken, outOpened, exc, raisedAt>>

Next ==
    \/ ReadMissing
    \/ ReadFails
    \/ ReadAndFindStart
    \/ ScanStep
    \/ WriteOutput
    \/ WriteNoDirectory
    \/ WriteFails
    \/ MainReturns
    \/ ExceptFileNotFound
    \/ ExceptException

Spec == Init /\ [][Next]_vars

-----------------------------------------------------------------------------
(* What the document is, stated without the program's loops *)

\* The indices of the diff-start lines of the document read.
DiffStartIndices == {d \in 0..(Len(lines) - 1) : IsDiffStart(At(lines, d))}

\* The diff-start line that opens the section holding line j.
SectionStart(j) == Max({d \in DiffStartIndices : d <= j})

\* One past the last line of the section that starts at d.
SectionEnd(d) == Min({e \in DiffStartIndices \cup {Len(lines)} : e > d})

\* The section that starts at d: up to the next diff-start line, excluded.
Section(d) == SubSeq(lines, d + 1, SectionEnd(d))

WithoutEol(line) ==
    IF Len(line) > 0 /\ line[Len(line)] = "\n"
    THEN SubSeq(line, 1, Len(line) - 1)
    ELSE line

MW == <<"middleware", "/">>

\* Every way of reading a line as 'diff --git a/<a> b/<b>'.
Parses(line) ==
    LET body == WithoutEol(line)
        head == <<"diff --git", " ", "a/">>
        sep  == <<" ", "b/">>
    IN  IF ~StartsWith(body, head) THEN {}
        ELSE {[a |-> SubSeq(body, Len(head) + 1, k - 1),
               b |-> SubSeq(body, k + Len(sep), Len(body))] :
                 k \in {n \in (Len(head) + 1)..(Len(body) - 1) :
                            SubSeq(body, n, n + 1) = sep}}

\* The readings in which both paths are under middleware/.
EligibleParses(line) ==
    {p \in Parses(line) : StartsWith(p.a, MW) /\ StartsWith(p.b, MW)}

Eligible(line) == EligibleParses(line) # {}

EligibleStarts == {d \in DiffStartIndices : Eligible(At(lines, d))}

StripMW(path) == SubSeq(path, Len(MW) + 1, Len(path))

IsMarker(line) ==
    IsDiffStart(line) \/ StartsWith(line, OLD_A) \/ StartsWith(line, OLD_B)

IsPrefix(s, t) == Len(s) <= Len(t) /\ SubSeq(t, 1, Len(s)) = s

\* The input was read (the run is past f.readlines()).
ReadDone == pc # "read" /\ raisedAt # "read"

\* The run ended with the output written and no exception.
Written == pc = "exit" /\ exc = "" /\ outOpened

Reported(m) == \E k \in 1..Len(stdout) : stdout[k].msg = m

\* The rewritten eligible sections that start in k..limit-1, concatenated.
RECURSIVE ExpectedOutput(_, _)
ExpectedOutput(k, limit) ==
    IF k >= limit THEN <<>>
    ELSE IF k \in EligibleStarts
         THEN LET m == re_match_middleware(At(lines, k))
              IN  process_middleware_section(Section(k), m.g1, m.g2)
                      \o ExpectedOutput(SectionEnd(k), limit)
         ELSE ExpectedOutput(k + 1, limit)

-----------------------------------------------------------------------------
(* Claims *)

\* C1: no line of a section whose diff-start line does not have both paths
\* under middleware/ is emitted: every emitted line comes from a section whose
\* diff-start line is eligible, and the file on disk holds emitted lines only.
C1_IneligibleSectionsAbsent ==
    /\ Len(origin) = Len(filtered_lines)
    /\ \A k \in 1..Len(origin) : Eligible(At(lines, SectionStart(origin[k])))
    /\ outOpened => outFile = outFile0 \/ IsPrefix(outFile.content, filtered_lines)

\* C1 witness: a written, non-empty output of a document that has a section
\* with only one side under middleware/ and a section for the path `middleware`.
C1_Witness ==
    /\ Written
    /\ outFile.content # <<>>
    /\ \E d \in DiffStartIndices :
           WithoutEol(At(lines, d)) =
               <<"diff --git", " ", "a/", "middleware", "/", "x", " ", "b/", "x">>
    /\ \E d \in DiffStartIndices :
           WithoutEol(At(lines, d)) =
               <<"diff --git", " ", "a/", "middleware", " ", "b/", "middleware">>

\* C2: the diff-start line emitted for an eligible section is
\* 'diff --git a/<a> b/<b>' where <a>, <b> are the original paths with only the
\* leading middleware/ removed.
C2_DiffStartRewritten ==
    \A k \in 1..Len(origin) :
        IsDiffStart(At(lines, origin[k])) =>
            \E p \in EligibleParses(At(lines, origin[k])) :
                filtered_lines[k] =
                    <<"diff --git", " ", "a/">> \o StripMW(p.a)
                        \o <<" ", "b/">> \o StripMW(p.b) \o NL

\* C2 witness: the diff-start line whose path holds a later ' b/middleware/'
\* was emitted, and the emitted line still holds that occurrence.
C2_Witness ==
    \E k \in 1..Len(origin) :
        /\ WithoutEol(At(lines, origin[k])) =
               <<"diff --git", " ", "a/", "middleware", "/", "x",
                 " ", "b/", "middleware", "/", "x", " ", "b/", "middleware", "/", "x">>
        /\ \E n \in 1..Len(filtered_lines[k]) : filtered_lines[k][n] = "middleware"

\* C3: a line of an eligible section that begins with '--- a/middleware/'
\* (resp. '+++ b/middleware/') is emitted with that leading literal replaced
\* by '--- a/' (resp. '+++ b/') and the rest of the line verbatim.
C3_MarkerPrefixOnly ==
    \A k \in 1..Len(origin) :
        LET src == At(lines, origin[k])
        IN  /\ StartsWith(src, OLD_A) =>
                filtered_lines[k] = NEW_A \o SubSeq(src, Len(OLD_A) + 1, Len(src))
            /\ StartsWith(src, OLD_B) =>
                filtered_lines[k] = NEW_B \o SubSeq(src, Len(OLD_B) + 1, Len(src))

C5_OutputIsEligibleSections ==
    /\ pc \in {"scan", "write"} => filtered_lines = ExpectedOutput(0, i)
    /\ Written => outFile = File(ExpectedOutput(0, Len(lines)))
    /\ \A k \in 1..Len(origin) : origin[k] >= start_index /\ start_index >= 0
    /\ \A k \in 1..(Len(origin) - 1) : origin[k + 1] = origin[k] + 1
                                        \/ (/\ origin[k + 1] > origin[k]
                                            /\ origin[k + 1] \in EligibleStarts)

\* C5 witness: a written output with an eligible section that follows a
\* preamble and a section that is not eligible.
C5_Witness ==
    /\ Written
    /\ start_index > 0
    /\ \E d \in DiffStartIndices : \E e \in EligibleStarts :
           d < e /\ ~Eligible(At(lines, d))
    /\ outFile.content # <<>>

\* C6: the number of 'diff --git' lines in the output, which is the number
\* reported, is the number of eligible sections of the input.
C6_CountIsEligibleSections ==
    Written =>
        /\ count_diff_lines(outFile.content) = Cardinality(EligibleStarts)
        /\ stdout[Len(stdout)] =
               Msg("Processed middleware diff sections", Cardinality(EligibleStarts))

\* C6 witness: a written output of a document with two eligible sections and
\* one that is not.
C6_Witness ==
    /\ Written
    /\ Cardinality(EligibleStarts) = 2
    /\ Cardinality(DiffStartIndices) = 3

\* C7: when the input has no diff-start line the output path is never opened
\* and stays as it was, the 'no diff found' message is the only one printed,
\* no exception is raised and the process ends with status 0.
C7_NoDiffNoOutput ==
    (ReadDone /\ DiffStartIndices = {}) =>
        /\ pc \in {"returned", "exit"}
        /\ ~outOpened
        /\ outFile = outFile0
        /\ stdout = <<Msg("No 'diff --git' found", 0)>>
        /\ exc = ""
        /\ exit_status = IF pc = "exit" THEN <<0>> ELSE <<>>

\* C7 witness: the run over a non-empty document without a diff-start line
\* has ended, with a file already at the output path.
C7_Witness ==
    /\ pc = "exit"
    /\ raisedAt = ""
    /\ Len(lines) = MaxLines
    /\ DiffStartIndices = {}
    /\ outFile0 = Stale

\* C8: the missing-input report is printed exactly for a failure to read the
\* input, and then the output path was not opened; every other failure is
\* reported as an error processing the patch file; both end with status 1.
C8_ErrorTaxonomy ==
    pc = "exit" =>
        /\ inFile = Missing => Reported("Error: Input file not found")
        /\ Reported("Error: Input file not found") =>
               raisedAt = "read" /\ ~outOpened
        /\ raisedAt = "write" => Reported("Error processing patch file")
        /\ raisedAt # "" => exit_status = <<1>>

\* C9: with a diff-start line but no eligible section and no I/O error, the
\* output file is written empty, the count reported is 0 and the status is 0.
C9_NoEligibleWritesEmpty ==
    /\ (ReadDone /\ DiffStartIndices # {} /\ EligibleStarts = {}) =>
           /\ pc \in {"scan", "write", "returned", "exit", "except"}
           /\ filtered_lines = <<>>
           /\ pc \in {"returned", "exit"} /\ exc = "" =>
                  /\ outOpened
                  /\ outFile = File(<<>>)
                  /\ stdout = <<Msg("Filtered patch written to", 0),
                                Msg("Processed middleware diff sections", 0)>>
           /\ pc = "exit" /\ exc = "" => exit_status = <<0>>

\* C9 witness: such a run has ended, over a file that was at the output path.
C9_Witness ==
    /\ Written
    /\ Cardinality(DiffStartIndices) >= 2
    /\ EligibleStarts = {}
    /\ \E d \in DiffStartIndices : StartsWith(At(lines, d), RE_HEAD)
    /\ outFile0 = Stale
    /\ outFile = File(<<>>)

\* C10: the scan visits exactly the diff-start lines: at the start of every
\* iteration i is at a diff-start line, the loop ends with i at the end of
\* the document, the `i += 1` branch never runs, collect_diff_section returns
\* the section up to the next diff-start line excluded, and neither advance
\* passes over a diff-start line.
C10_SectionsPartition ==
    /\ ~plainTaken
    /\ pc = "scan" =>
           /\ i < Len(lines)
           /\ i \in DiffStartIndices
           /\ collect_diff_section(lines, i) = Section(i)
           /\ i + Len(collect_diff_section(lines, i)) = SectionEnd(i)
           /\ skip_to_next_diff(lines, i + 1) = SectionEnd(i)
    /\ pc = "write" => i = Len(lines)
    /\ pc \in {"scan", "write"} =>
           /\ {visited[k] : k \in 1..Len(visited)} = {d \in DiffStartIndices : d < i}
           /\ \A k \in 1..(Len(visited) - 1) : visited[k + 1] = SectionEnd(visited[k])

\* C10 witness: the scan has ended after a skipped section, an eligible section
\* of two lines and a last section.
C10_Witness ==
    /\ pc = "write"
    /\ Len(visited) >= 2
    /\ \E k \in 1..Len(visited) : visited[k] \notin EligibleStarts
    /\ \E k \in 1..Len(visited) :
           visited[k] \in EligibleStarts /\ SectionEnd(visited[k]) = Len(lines)
    /\ Len(lines) > Len(visited)

====
